---- MODULE Spec2Model ----
(***************************************************************************)
(* manage.py: the TokenScript compliance-test scaffolding tool.            *)
(*                                                                         *)
(* A Python string is modelled as a sequence of characters.  The           *)
(* characters the code inspects (whitespace, "#", ":", ",", "{", "}")      *)
(* are characters of their own; a word the code only ever compares or      *)
(* copies as a whole ("START_INPUT", "Number", a JSON string literal)      *)
(* is one character of the alphabet.                                       *)
(***************************************************************************)
EXTENDS Integers, Sequences, FiniteSets, TLC

VARIABLES
    argv,             \* sys.argv[1:]
    files,            \* the files under tests/: path -> record
    dirs,             \* the category directories that exist under tests/
    pc,               \* position of the run in main / create_or_edit_test
    exit_status,      \* the exit status once the process has ended, else "none"
    edit_mode,        \* create_or_edit_test's parameter
    test_path,        \* create_or_edit_test's parameter / the picker's result
    test_files,       \* the list select_test_to_edit was given
    loaded,           \* the record json.load read in edit mode
    template,         \* the text handed to the editor
    temp_exists,      \* whether the temporary file exists
    launch,           \* how get_user_input_with_editor was left, "none" before
    editor_error,     \* the editor name printed on a failed launch, else None
    user_input,       \* what get_user_input_with_editor returned
    test_data,        \* parse_editor_content's result / what is persisted
    test_file_path,   \* the resolved target path
    prompted,         \* whether the overwrite prompt has been shown
    confirm,          \* the answer to the overwrite prompt
    written,          \* whether this run has written the target file
    lines,            \* parse_editor_content: user_input.split('\n')
    idx,              \* parse_editor_content: index of the next line of the loop
    pstate,           \* parse_editor_content: the locals of the loop
    choice            \* select_test_to_edit: the line input() returned last

vars == <<argv, files, dirs, pc, exit_status, edit_mode, test_path, test_files,
          loaded, template, temp_exists, launch, editor_error, user_input,
          test_data,
          test_file_path, prompted, confirm, written, lines, idx, pstate, choice>>

(***************************************************************************)
(* Bounds of the model.                                                    *)
(***************************************************************************)
\* the longest text (in lines) the user leaves in the editor, whole program
MaxLines == 2
\* the longest text (in lines) given to the parser on its own
MaxParseLines == 3

(***************************************************************************)
(* Python values and string methods.                                       *)
(***************************************************************************)
None == <<"<None>">>

Truthy(x) == x # None /\ x # <<>>

Whitespace == {" ", "\n", "\t"}

RECURSIVE lstrip(_)
lstrip(s) ==
    IF Len(s) > 0 /\ Head(s) \in Whitespace THEN lstrip(Tail(s)) ELSE s

RECURSIVE rstrip(_)
rstrip(s) ==
    IF Len(s) > 0 /\ s[Len(s)] \in Whitespace
    THEN rstrip(SubSeq(s, 1, Len(s) - 1)) ELSE s

\* str.strip()
strip(s) == rstrip(lstrip(s))

\* c in s
contains(s, c) == \E i \in 1..Len(s) : s[i] = c

\* s.find(c) + 1: the position of the first c, 0 when there is none
find(s, c) ==
    IF contains(s, c)
    THEN CHOOSE i \in 1..Len(s) : s[i] = c /\ \A j \in 1..(i - 1) : s[j] # c
    ELSE 0

\* s.startswith(c)
startswith(s, c) == Len(s) > 0 /\ s[1] = c

\* s.endswith(c)
endswith(s, c) == Len(s) > 0 /\ s[Len(s)] = c

\* s.split(c, 1), for an s that contains c
split1(s, c) ==
    LET i == find(s, c) IN <<SubSeq(s, 1, i - 1), SubSeq(s, i + 1, Len(s))>>

\* s.split(c)[0]
before(s, c) ==
    LET i == find(s, c) IN IF i = 0 THEN s ELSE SubSeq(s, 1, i - 1)

\* s.split(c)
RECURSIVE split(_, _)
split(s, c) ==
    LET i == find(s, c) IN
    IF i = 0 THEN <<s>>
    ELSE <<SubSeq(s, 1, i - 1)>> \o split(SubSeq(s, i + 1, Len(s)), c)

\* c.join(ls)
RECURSIVE join(_, _)
join(ls, c) ==
    IF Len(ls) = 0 THEN <<>>
    ELSE IF Len(ls) = 1 THEN ls[1]
    ELSE ls[1] \o <<c>> \o join(Tail(ls), c)

LowerChar(c) ==
    CASE c = "A" -> "a"
      [] c = "B" -> "b"
      [] c = "Q" -> "q"
      [] c = "Y" -> "y"
      [] c = "Test" -> "test"
      [] OTHER -> c

\* s.lower()
lower(s) == [i \in 1..Len(s) |-> LowerChar(s[i])]

Digits == {"0", "1", "2", "3"}

DigitValue(c) == CASE c = "0" -> 0 [] c = "1" -> 1 [] c = "2" -> 2 [] OTHER -> 3

RECURSIVE Decimal(_)
Decimal(s) ==
    IF Len(s) = 0 THEN 0
    ELSE 10 * Decimal(SubSeq(s, 1, Len(s) - 1)) + DigitValue(s[Len(s)])

ValueError == [ok |-> FALSE, value |-> 0]

\* int(s): an optional sign and decimal digits, whitespace around them ignored
int(s) ==
    LET t == strip(s)
        signed == Len(t) > 0 /\ t[1] \in {"-", "+"}
        digits == IF signed THEN Tail(t) ELSE t IN
    IF Len(digits) = 0 \/ \E i \in 1..Len(digits) : digits[i] \notin Digits
    THEN ValueError
    ELSE [ok |-> TRUE,
          value |-> IF signed /\ t[1] = "-" THEN 0 - Decimal(digits) ELSE Decimal(digits)]

\* s.replace(a, b), a and b single characters
replace(s, a, b) == [i \in 1..Len(s) |-> IF s[i] = a THEN b ELSE s[i]]

(***************************************************************************)
(* Python dicts with string keys: functions from keys to values.           *)
(***************************************************************************)
EmptyDict == [k \in {} |-> <<>>]

\* d.get(k, default)
Get(d, k, default) == IF k \in DOMAIN d THEN d[k] ELSE default

\* d[k] = v
Put(d, k, v) == (k :> v) @@ d

\* d.pop(k), the dict that is left
Pop(d, k) == [x \in (DOMAIN d) \ {k} |-> d[x]]

(***************************************************************************)
(* json: objects whose members are numbers, the values a context holds     *)
(* here.  A JSON object is a function from its member names to values.     *)
(***************************************************************************)
JsonKeys == {"\"x\"", "\"y\""}
JsonNumbers == {"1", "2"}
EmptyObject == [k \in {} |-> "1"]
JSONDecodeError == [ok |-> FALSE, value |-> EmptyObject]
Decoded(v) == [ok |-> TRUE, value |-> v]

\* the members of an object, after its "{": name : value (, name : value)* }
RECURSIVE json_members(_)
json_members(w) ==
    IF Len(w) < 4 \/ w[1] \notin JsonKeys \/ w[2] # ":" \/ w[3] \notin JsonNumbers
    THEN JSONDecodeError
    ELSE IF Len(w) = 4
    THEN (IF w[4] = "}" THEN Decoded([k \in {w[1]} |-> w[3]]) ELSE JSONDecodeError)
    ELSE IF w[4] # "," THEN JSONDecodeError
    ELSE LET rest == json_members(SubSeq(w, 5, Len(w))) IN
         IF ~rest.ok THEN JSONDecodeError
         ELSE Decoded([k \in (DOMAIN rest.value) \cup {w[1]} |->
                          IF k \in DOMAIN rest.value THEN rest.value[k] ELSE w[3]])

\* json.loads(s): whitespace between tokens is insignificant
json_loads(s) ==
    LET w == SelectSeq(s, LAMBDA c : c \notin Whitespace) IN
    IF Len(w) < 2 \/ w[1] # "{" THEN JSONDecodeError
    ELSE IF Len(w) = 2
    THEN (IF w[2] = "}" THEN Decoded(EmptyObject) ELSE JSONDecodeError)
    ELSE json_members(Tail(w))

\* the members of json.dumps(obj, indent=2), one per line, two spaces in
RECURSIVE dump_members(_, _)
dump_members(obj, keys) ==
    IF keys = {} THEN <<>>
    ELSE LET k == CHOOSE x \in keys : TRUE
             rest == keys \ {k} IN
         <<"\n", " ", " ", k, ":", " ", obj[k]>>
         \o (IF rest = {} THEN <<>> ELSE <<",">>)
         \o dump_members(obj, rest)

\* json.dumps(obj, indent=2)
json_dumps(obj) ==
    IF DOMAIN obj = {} THEN <<"{", "}">>
    ELSE <<"{">> \o dump_members(obj, DOMAIN obj) \o <<"\n", "}">>

(***************************************************************************)
(* Test records.  A record is a dict; its string-valued keys are kept in   *)
(* data and its "context" value, a JSON object, in context.                *)
(***************************************************************************)
Key(word) == <<word>>

NoneRecord == [present |-> FALSE, data |-> EmptyDict, context |-> EmptyObject]

Record(d, c) == [present |-> TRUE, data |-> d, context |-> c]

(***************************************************************************)
(* generate_editor_template                                                *)
(***************************************************************************)
Comment(t) == <<"#", " ", t>>

SectionNames == <<Key("input"), Key("expectedOutput")>>

sections ==
    [s \in {Key("input"), Key("expectedOutput")} |->
        IF s = Key("input")
        THEN [start |-> <<"#", " ", "START_INPUT">>,
              end   |-> <<"#", " ", "END_INPUT">>]
        ELSE [start |-> <<"#", " ", "START_EXPECTED_OUTPUT">>,
              end   |-> <<"#", " ", "END_EXPECTED_OUTPUT">>]]

TemplateHead ==
    << <<"#", " ", "Edit the test details below. Lines starting with", " ",
         "#", " ", "will be ignored.">>,
       Comment("Save and close the editor when done."),
       <<>> >>

InputHelp ==
    << Comment("For input expression, write it between the START and END markers below"),
       Comment("You can use multiple lines for complex TokenScript expressions") >>

OutputHelp ==
    << Comment("For expected output, write it between the START and END markers below") >>

TypeHint == <<" ", "#", " ", "or String, Boolean, etc.">>

ContextHelp == Comment("Context (variables) section - use JSON format")

\* the template of a new test (test_data is None)
default_template ==
    join(TemplateHead
         \o << <<"name", ":", " ", "Test", " ", "name", " ", "here">>, <<>> >>
         \o InputHelp
         \o << sections[Key("input")].start,
               <<"Your TokenScript expression here">>,
               sections[Key("input")].end,
               <<>> >>
         \o OutputHelp
         \o << sections[Key("expectedOutput")].start,
               <<"Expected result here">>,
               sections[Key("expectedOutput")].end,
               <<>>,
               <<"expectedOutputType", ":", " ", "Number">> \o TypeHint,
               <<>>,
               ContextHelp,
               <<"#", " ", "Remove the {} and add your context variables if needed, e.g.", ":">>,
               <<"#", " ", "{">>,
               <<"#", " ", " ", " ", "\"x\"", ":", " ", "3", ",">>,
               <<"#", " ", " ", " ", "\"y\"", ":", " ", "\"hello\"">>,
               <<"#", " ", "}">>,
               <<"context", ":", " ", "{", "}">>,
               <<>> >>,
         "\n")

\* the template of an existing test
filled_template(rec) ==
    LET context_str == json_dumps(rec.context)
        misspelled  == Get(rec.data, Key("exceptedOutputType"), <<>>)
        output_type == IF Truthy(misspelled) THEN misspelled
                       ELSE Get(rec.data, Key("expectedOutputType"), <<>>)
    IN
    join(TemplateHead
         \o << <<"name", ":", " ">>
                  \o Get(rec.data, Key("name"), <<"Test", " ", "name", " ", "here">>),
               <<>> >>
         \o InputHelp
         \o << sections[Key("input")].start,
               Get(rec.data, Key("input"), <<"Your TokenScript expression here">>),
               sections[Key("input")].end,
               <<>> >>
         \o OutputHelp
         \o << sections[Key("expectedOutput")].start,
               Get(rec.data, Key("expectedOutput"), <<"Expected result here">>),
               sections[Key("expectedOutput")].end,
               <<>>,
               <<"expectedOutputType", ":", " ">> \o output_type \o TypeHint,
               <<>>,
               ContextHelp,
               <<"context", ":", " ">> \o context_str,
               <<>> >>,
         "\n")

generate_editor_template(rec) ==
    IF ~rec.present THEN default_template ELSE filled_template(rec)

(***************************************************************************)
(* parse_editor_content                                                    *)
(***************************************************************************)
\* the locals before the loop
ParserInit ==
    [current_section |-> None,
     section_content |-> <<>>,
     test_data       |-> EmptyDict,
     context_json    |-> <<"{", "}">>]

\* lines 119-130: the loop over the sections, from the i-th on, with its breaks
RECURSIVE MarkerScan(_, _, _)
MarkerScan(st, line_stripped, i) ==
    IF i > Len(SectionNames) THEN st
    ELSE LET section == SectionNames[i]
             markers == sections[section] IN
         IF line_stripped = markers.start
         THEN [st EXCEPT !.current_section = section, !.section_content = <<>>]
         ELSE IF line_stripped = markers.end
         THEN (IF Truthy(st.current_section)
               THEN [st EXCEPT
                       !.test_data = Put(st.test_data, st.current_section,
                                         strip(join(st.section_content, "\n"))),
                       !.current_section = None]
               ELSE st)
         ELSE MarkerScan(st, line_stripped, i + 1)

\* lines 132-135: collect the content of the section
Collect(st, line) ==
    LET line_stripped == strip(line) IN
    IF /\ Truthy(st.current_section)
       /\ ~startswith(line_stripped, "#")
       /\ line_stripped \notin {sections[st.current_section].start,
                                sections[st.current_section].end}
    THEN [st EXCEPT !.section_content = Append(st.section_content, line)]
    ELSE st

\* StoreKey without the test that the key is new: the last declaration wins
StoreKeyOverwrite(data, key, value) ==
    IF key = Key("expectedOutputType")
    THEN Put(data, key, strip(before(value, "#")))
    ELSE IF key # Key("context") /\ key \notin DOMAIN sections
    THEN Put(data, key, value)
    ELSE data

\* lines 143-147: what a key/value line stores in test_data
StoreKey(data, key, value) ==
    IF key = Key("expectedOutputType")
    THEN Put(data, key, strip(before(value, "#")))
    ELSE IF /\ key \notin DOMAIN data
            /\ key # Key("context")
            /\ key \notin DOMAIN sections
    THEN Put(data, key, value)
    ELSE data

\* lines 149-150: what a key/value line leaves as the pending context text
StoreContext(context_json, key, value) ==
    IF key = Key("context") THEN value ELSE context_json

\* KeyValue without the test that no section is open
KeyValueAnywhere(st, line) ==
    IF contains(line, ":") /\ ~startswith(strip(line), "#")
    THEN LET kv    == split1(line, ":")
             key   == strip(kv[1])
             value == strip(kv[2]) IN
         [st EXCEPT !.test_data = StoreKey(st.test_data, key, value),
                    !.context_json = StoreContext(st.context_json, key, value)]
    ELSE st

\* lines 137-150: key/value lines outside of sections
KeyValue(st, line) ==
    IF /\ ~Truthy(st.current_section)
       /\ contains(line, ":")
       /\ ~startswith(strip(line), "#")
    THEN LET kv    == split1(line, ":")
             key   == strip(kv[1])
             value == strip(kv[2]) IN
         [st EXCEPT !.test_data = StoreKey(st.test_data, key, value),
                    !.context_json = StoreContext(st.context_json, key, value)]
    ELSE st

\* lines 115-150: one iteration of the loop over the lines
ParseLine(st, line) ==
    KeyValue(Collect(MarkerScan(st, strip(line), 1), line), line)

\* ParseFinish with the decode error swallowed: the context stays empty
ParseFinishLenient(st) ==
    [exit |-> "none",
     test_data |-> Record(st.test_data, json_loads(st.context_json).value)]

\* lines 152-159: decode the context; exit is the status of sys.exit, "none" on return
ParseFinish(st) ==
    LET decoded == json_loads(st.context_json) IN
    IF decoded.ok
    THEN [exit |-> "none", test_data |-> Record(st.test_data, decoded.value)]
    ELSE [exit |-> "1", test_data |-> NoneRecord]

(***************************************************************************)
(* argparse                                                                *)
(***************************************************************************)
ArgError == [error |-> TRUE, opts |-> EmptyDict]

\* the optional arguments of a parser that takes only `allowed`, each with one
\* value; any other word is an unrecognized argument
RECURSIVE ParseOptions(_, _)
ParseOptions(av, allowed) ==
    IF Len(av) = 0 THEN [error |-> FALSE, opts |-> EmptyDict]
    ELSE IF av[1] \notin allowed \/ Len(av) < 2 THEN ArgError
    ELSE LET rest == ParseOptions(SubSeq(av, 3, Len(av)), allowed) IN
         IF rest.error THEN ArgError
         ELSE [error |-> FALSE, opts |-> Put(rest.opts, av[1], av[2])]

\* lines 281-296: main's parser with its two subparsers
MainParseArgs(av) ==
    IF Len(av) = 0 THEN [error |-> FALSE, mode |-> None, opts |-> EmptyDict]
    ELSE IF av[1] = Key("create")
    THEN LET r == ParseOptions(Tail(av), {Key("--category"), Key("--filename")}) IN
         [error |-> r.error, mode |-> Key("create"), opts |-> r.opts]
    ELSE IF av[1] = Key("edit")
    THEN LET r == ParseOptions(Tail(av), {Key("--path")}) IN
         [error |-> r.error, mode |-> Key("edit"), opts |-> r.opts]
    ELSE [error |-> TRUE, mode |-> None, opts |-> EmptyDict]

\* lines 240-244: create_or_edit_test's own parser, run on the same sys.argv
InnerParseArgs(av) ==
    ParseOptions(av, {Key("--category"), Key("--filename")})

(***************************************************************************)
(* The inputs of the model.                                                *)
(***************************************************************************)
PathA == <<"tests", "/", "math", "/", "a", ".json">>
PathB == <<"tests", "/", "math", "/", "b", ".json">>

BaseData ==
    (Key("name") :> <<"A">>)
    @@ (Key("input") :> <<"3", " ", "+", " ", "4">>)
    @@ (Key("expectedOutput") :> <<"7">>)
    @@ (Key("expectedOutputType") :> <<"Number">>)

\* a record as the tool writes it, one with a context, one with both spellings
\* of the output type key
PlainRecord == Record(BaseData, EmptyObject)
ContextRecord == Record(BaseData, [k \in {"\"x\""} |-> "1"])
LegacyRecord ==
    Record((Key("exceptedOutputType") :> <<"Boolean">>) @@ BaseData, EmptyObject)

InitialFiles ==
    { EmptyDict,
      (PathA :> PlainRecord),
      (PathA :> ContextRecord) @@ (PathB :> PlainRecord),
      (PathA :> LegacyRecord) }

ArgvSet ==
    { <<>>,
      <<Key("create")>>,
      <<Key("create"), Key("--category"), Key("color"), Key("--filename"), Key("b")>>,
      <<Key("--category"), Key("color")>>,
      <<Key("edit")>>,
      <<Key("edit"), Key("--path"), PathA>> }

Editors == {Key("vim"), Key("nano")}

\* the lines the user types in the editor
EditorLines ==
    { <<"name", ":", " ", "A">>,
      <<"name", ":", " ", "B">>,
      <<"expectedOutputType", ":", " ", "Number", " ", "#", " ", "or String">>,
      <<"exceptedOutputType", ":", " ", "Boolean">>,
      <<"context", ":", " ", "{">>,
      <<"context", ":", " ", "{", "\"x\"", ":", " ", "1", "}">>,
      sections[Key("input")].start,
      <<"foo">> }

\* the lines given to the parser on its own
ParserLines ==
    EditorLines
    \cup { sections[Key("input")].end,
           sections[Key("expectedOutput")].start,
           sections[Key("expectedOutput")].end,
           <<"expectedOutputType", ":", " ", "String">> }

\* the texts of at most n lines over ls
Texts(ls, n) ==
    { join(t, "\n") : t \in UNION { [1..k -> ls] : k \in 0..n } }

\* what the prompts of the picker and of the overwrite question are answered
Choices ==
    { <<"q">>, <<"Q">>, <<"0">>, <<"1">>, <<"2">>, <<"3">>, <<"-", "1">>,
      <<"x">>, <<>> }
Answers == { <<"y">>, <<"Y">>, <<"n">>, <<>> }

(***************************************************************************)
(* The program.                                                            *)
(***************************************************************************)
Init ==
    /\ argv \in ArgvSet
    /\ files \in InitialFiles
    /\ dirs = IF DOMAIN files = {} THEN {} ELSE {Key("math")}
    /\ pc = "main"
    /\ exit_status = "none"
    /\ edit_mode = FALSE
    /\ test_path = None
    /\ test_files = <<>>
    /\ loaded = NoneRecord
    /\ template = <<>>
    /\ temp_exists = FALSE
    /\ launch = "none"
    /\ editor_error = None
    /\ user_input = None
    /\ test_data = NoneRecord
    /\ test_file_path = None
    /\ prompted = FALSE
    /\ confirm = None
    /\ written = FALSE
    /\ lines = <<>>
    /\ idx = 1
    /\ pstate = ParserInit
    /\ choice = None

disk == <<files, dirs, written>>
args == <<argv, edit_mode, test_path, test_files, loaded, choice>>
editing == <<template, temp_exists, launch, editor_error, user_input>>
parsing == <<lines, idx, pstate, test_data>>
saving == <<test_file_path, prompted, confirm>>

\* sys.exit(status), or the end of the process by an uncaught exception
Exit(status) == pc' = "exited" /\ exit_status' = status

\* lines 279-304, 201-205, 221-226: main and the head of create_or_edit_test
Main ==
    /\ pc = "main"
    /\ LET a == MainParseArgs(argv) IN
       IF a.error
       THEN Exit("2") /\ UNCHANGED <<edit_mode, test_path, template>>
       ELSE IF a.mode = Key("edit")
       THEN /\ edit_mode' = TRUE
            /\ test_path' = Get(a.opts, Key("--path"), None)
            /\ pc' = IF Truthy(test_path') THEN "load" ELSE "find"
            /\ UNCHANGED <<exit_status, template>>
       ELSE /\ edit_mode' = FALSE
            /\ template' = generate_editor_template(NoneRecord)
            /\ pc' = "editor"
            /\ UNCHANGED <<exit_status, test_path>>
    /\ UNCHANGED <<disk, argv, test_files, loaded, choice, temp_exists,
                   launch, editor_error, user_input, parsing, saving>>

\* the lists of the elements of S, each once
Orderings(S) ==
    { o \in [1..Cardinality(S) -> S] :
        \A i, j \in 1..Cardinality(S) : i # j => o[i] # o[j] }

\* lines 162-173, 178-184: find_test_files (glob's order is not specified) and
\* the head of select_test_to_edit
FindTestFiles ==
    /\ pc = "find"
    /\ \E found \in Orderings(DOMAIN files) :
          /\ test_files' = found
          /\ IF Len(found) = 0
             THEN Exit("1")
             ELSE pc' = "select" /\ UNCHANGED exit_status
    /\ UNCHANGED <<disk, argv, edit_mode, test_path, loaded, choice, editing,
                   parsing, saving>>

\* SelectTest with the quit input compared without lower()
SelectTestCaseSensitive ==
    /\ pc = "select"
    /\ \E line \in Choices :
          /\ choice' = line
          /\ IF line = <<"q">>
             THEN Exit("0") /\ UNCHANGED test_path
             ELSE LET n == int(line) IN
                  IF n.ok /\ 0 <= n.value - 1 /\ n.value - 1 < Len(test_files)
                  THEN /\ test_path' = test_files[n.value]
                       /\ pc' = "load"
                       /\ UNCHANGED exit_status
                  ELSE UNCHANGED <<pc, exit_status, test_path>>
    /\ UNCHANGED <<disk, argv, edit_mode, test_files, loaded, editing, parsing,
                   saving>>

\* lines 186-198: one turn of the picker's loop
SelectTest ==
    /\ pc = "select"
    /\ \E line \in Choices :
          /\ choice' = line
          /\ IF lower(line) = <<"q">>
             THEN Exit("0") /\ UNCHANGED test_path
             ELSE LET n == int(line) IN
                  IF n.ok /\ 0 <= n.value - 1 /\ n.value - 1 < Len(test_files)
                  THEN /\ test_path' = test_files[n.value]
                       /\ pc' = "load"
                       /\ UNCHANGED exit_status
                  ELSE UNCHANGED <<pc, exit_status, test_path>>
    /\ UNCHANGED <<disk, argv, edit_mode, test_files, loaded, editing, parsing,
                   saving>>

\* lines 210-220: read the test to edit
LoadTest ==
    /\ pc = "load"
    /\ IF test_path \notin DOMAIN files
       THEN Exit("1") /\ UNCHANGED <<loaded, template>>
       ELSE /\ loaded' = files[test_path]
            /\ template' = generate_editor_template(loaded')
            /\ pc' = "editor"
            /\ UNCHANGED exit_status
    /\ UNCHANGED <<disk, argv, edit_mode, test_path, test_files, choice,
                   temp_exists, launch, editor_error, user_input, parsing, saving>>

\* lines 14-20, 23: the temporary file is written and the editor started
OpenEditor ==
    /\ pc = "editor"
    /\ temp_exists' = TRUE
    /\ pc' = "editing"
    /\ UNCHANGED <<disk, args, exit_status, template, launch, editor_error,
                   user_input, parsing, saving>>

\* lines 23, 29-33: the editor exits with status 0 and the text is read back
EditorSaved ==
    /\ pc = "editing"
    /\ \E text \in Texts(EditorLines, MaxLines) \cup {template} :
          user_input' = text
    /\ launch' = "saved"
    /\ temp_exists' = FALSE
    /\ pc' = "edited"
    /\ UNCHANGED <<disk, args, exit_status, template, editor_error, parsing,
                   saving>>

\* lines 23-27: the editor exits with another status (CalledProcessError)
EditorFailed ==
    /\ pc = "editing"
    /\ \E editor \in Editors : editor_error' = editor
    /\ launch' = "failed"
    /\ temp_exists' = FALSE
    /\ user_input' = None
    /\ pc' = "edited"
    /\ UNCHANGED <<disk, args, exit_status, template, parsing, saving>>

\* line 23: the editor cannot be executed; check_call raises an OSError, which
\* line 24 does not catch
EditorMissing ==
    /\ pc = "editing"
    /\ launch' = "missing"
    /\ Exit("1")
    /\ UNCHANGED <<disk, args, template, temp_exists, editor_error, user_input,
                   parsing, saving>>

\* lines 29-30: the editor exited with status 0 and the file cannot be read
EditorUnreadable ==
    /\ pc = "editing"
    /\ launch' = "unreadable"
    /\ Exit("1")
    /\ UNCHANGED <<disk, args, template, temp_exists, editor_error, user_input,
                   parsing, saving>>

\* lines 229-233, 102-113: the empty-input check and the head of the parser
CheckInput ==
    /\ pc = "edited"
    /\ IF ~Truthy(user_input)
       THEN Exit("1") /\ UNCHANGED <<lines, idx, pstate>>
       ELSE /\ lines' = split(user_input, "\n")
            /\ idx' = 1
            /\ pstate' = ParserInit
            /\ pc' = "parse"
            /\ UNCHANGED exit_status
    /\ UNCHANGED <<disk, args, editing, test_data, saving>>

\* lines 115-150: one iteration of the parser's loop
ParseStep ==
    /\ pc = "parse"
    /\ idx <= Len(lines)
    /\ pstate' = ParseLine(pstate, lines[idx])
    /\ idx' = idx + 1
    /\ UNCHANGED <<disk, args, editing, saving, pc, exit_status, lines, test_data>>

\* lines 152-159: the end of the parser
ParseEnd ==
    /\ pc = "parse"
    /\ idx > Len(lines)
    /\ LET r == ParseFinish(pstate) IN
       IF r.exit # "none"
       THEN Exit(r.exit) /\ UNCHANGED test_data
       ELSE test_data' = r.test_data /\ pc' = "resolve" /\ UNCHANGED exit_status
    /\ UNCHANGED <<disk, args, editing, saving, lines, idx, pstate>>

\* lines 246-252: the file name of a new test
Filename(opts, data) ==
    LET given == Get(opts, Key("--filename"), None)
        name  == IF Truthy(given) THEN given
                 ELSE replace(lower(Get(data, Key("name"), <<"new_test">>)), " ", "_")
    IN IF endswith(name, ".json") THEN name ELSE name \o <<".json">>

\* lines 235-266: the target path, its directory and the overwrite question
ResolvePath ==
    /\ pc = "resolve"
    /\ IF edit_mode /\ Truthy(test_path)
       THEN /\ test_file_path' = test_path
            /\ pc' = "write"
            /\ UNCHANGED <<dirs, prompted, exit_status>>
       ELSE LET a == InnerParseArgs(argv) IN
            IF a.error
            THEN Exit("2") /\ UNCHANGED <<dirs, prompted, test_file_path>>
            ELSE LET category == Get(a.opts, Key("--category"), Key("math"))
                     path == <<"tests", "/">> \o category \o <<"/">>
                             \o Filename(a.opts, test_data.data) IN
                 /\ dirs' = dirs \cup {category}
                 /\ test_file_path' = path
                 /\ prompted' = (path \in DOMAIN files)
                 /\ pc' = IF path \in DOMAIN files THEN "confirm" ELSE "write"
                 /\ UNCHANGED exit_status
    /\ UNCHANGED <<files, written, args, editing, parsing, confirm>>

\* Confirm with yes as the default answer: only an explicit no cancels
ConfirmDefaultYes ==
    /\ pc = "confirm"
    /\ \E answer \in Answers :
          /\ confirm' = answer
          /\ IF startswith(lower(answer), "n")
             THEN Exit("0")
             ELSE pc' = "write" /\ UNCHANGED exit_status
    /\ UNCHANGED <<disk, args, editing, parsing, test_file_path, prompted>>

\* lines 263-266: the answer to the overwrite question
Confirm ==
    /\ pc = "confirm"
    /\ \E answer \in Answers :
          /\ confirm' = answer
          /\ IF ~startswith(lower(answer), "y")
             THEN Exit("0")
             ELSE pc' = "write" /\ UNCHANGED exit_status
    /\ UNCHANGED <<disk, args, editing, parsing, test_file_path, prompted>>

\* lines 268-270: the misspelled key
FixMisspelled(data) ==
    IF /\ Key("exceptedOutputType") \in DOMAIN data
       /\ Key("expectedOutputType") \notin DOMAIN data
    THEN Put(Pop(data, Key("exceptedOutputType")), Key("expectedOutputType"),
             data[Key("exceptedOutputType")])
    ELSE data

\* lines 268-276: the record is written and main returns
WriteTest ==
    /\ pc = "write"
    /\ test_data' = [test_data EXCEPT !.data = FixMisspelled(test_data.data)]
    /\ files' = Put(files, test_file_path, test_data')
    /\ written' = TRUE
    /\ Exit("0")
    /\ UNCHANGED <<dirs, args, editing, lines, idx, pstate, saving>>

Next ==
    \/ Main
    \/ FindTestFiles
    \/ SelectTest
    \/ LoadTest
    \/ OpenEditor
    \/ EditorSaved
    \/ EditorFailed
    \/ EditorMissing
    \/ EditorUnreadable
    \/ CheckInput
    \/ ParseStep
    \/ ParseEnd
    \/ ResolvePath
    \/ Confirm
    \/ WriteTest

Spec == Init /\ [][Next]_vars

(***************************************************************************)
(* parse_editor_content on its own, over every text of at most             *)
(* MaxParseLines lines of ParserLines.                                     *)
(***************************************************************************)
InitParser ==
    /\ user_input \in Texts(ParserLines, MaxParseLines)
    /\ lines = split(user_input, "\n")
    /\ idx = 1
    /\ pstate = ParserInit
    /\ pc = "parse"
    /\ argv = <<>>
    /\ files = EmptyDict
    /\ dirs = {}
    /\ exit_status = "none"
    /\ edit_mode = FALSE
    /\ test_path = None
    /\ test_files = <<>>
    /\ loaded = NoneRecord
    /\ template = <<>>
    /\ temp_exists = FALSE
    /\ launch = "none"
    /\ editor_error = None
    /\ test_data = NoneRecord
    /\ test_file_path = None
    /\ prompted = FALSE
    /\ confirm = None
    /\ written = FALSE
    /\ choice = None

NextParser ==
    \/ ParseStep
    \/ ParseEnd

SpecParser == InitParser /\ [][NextParser]_vars

(***************************************************************************)
(* Properties.                                                             *)
(***************************************************************************)
Canonical == Key("expectedOutputType")
Misspelled == Key("exceptedOutputType")

\* the loop of the parser has run over every line
ParsedAll == pc = "parse" /\ idx > Len(lines)

\* C1: round trip: the template of an existing record (here one that holds
\* the canonical output type key only), parsed unmodified, returns normally
\* with the record's input, expectedOutput, expectedOutputType and context.
C1_RoundTrip ==
    (/\ ParsedAll
     /\ loaded.present
     /\ Misspelled \notin DOMAIN loaded.data
     /\ user_input = template)
    => LET r == ParseFinish(pstate) IN
       /\ r.exit = "none"
       /\ \A k \in {Key("input"), Key("expectedOutput"), Canonical} :
             /\ k \in DOMAIN r.test_data.data
             /\ r.test_data.data[k] = loaded.data[k]
       /\ r.test_data.context = loaded.context

\* the positions from which nothing has been persisted yet
BeforePersistence ==
    {"main", "find", "select", "load", "editor", "editing", "edited", "parse"}

\* C2: in create and in edit mode, when the text captured from the last
\* context line is not valid JSON the run ends with a non-zero status at the
\* end of the parser, and no file or directory is created or modified up to
\* and including that step.
C2_InvalidContextAborts ==
    [][ /\ (pc \in BeforePersistence /\ pc' \in BeforePersistence \cup {"exited"})
           => (files' = files /\ dirs' = dirs /\ ~written')
        /\ (ParsedAll /\ ~json_loads(pstate.context_json).ok)
           => (pc' = "exited" /\ exit_status' \notin {"none", "0"})
        /\ (ParsedAll /\ json_loads(pstate.context_json).ok)
           => pc' = "resolve" ]_vars

C2_Witness ==
    /\ pc = "exited"
    /\ exit_status = "1"
    /\ edit_mode
    /\ launch = "saved"
    /\ Truthy(user_input)
    /\ idx > Len(lines)
    /\ pstate.context_json = <<"{">>
    /\ ~written

\* C3: on every exit path of get_user_input_with_editor the temporary file no
\* longer exists, and a failed launch is reported with the editor's name.
C3_TempFileRemoved ==
    /\ launch # "none" => ~temp_exists
    /\ launch = "failed" => editor_error \in Editors

\* C4: a persisted record never holds the misspelled key, and when the loaded
\* record holds both spellings the canonical key's value is the one persisted.
C4_MisspelledDropped ==
    written
    => /\ Misspelled \notin DOMAIN files[test_file_path].data
       /\ (edit_mode /\ user_input = template
           /\ {Canonical, Misspelled} \subseteq DOMAIN loaded.data)
          => files[test_file_path].data[Canonical] = loaded.data[Canonical]

\* what each key/value line of ParserLines declares
Declared ==
    [l \in { x \in ParserLines : contains(x, ":") } |->
        CASE l = <<"name", ":", " ", "A">> ->
                 [key |-> Key("name"), value |-> <<"A">>]
          [] l = <<"name", ":", " ", "B">> ->
                 [key |-> Key("name"), value |-> <<"B">>]
          [] l = <<"expectedOutputType", ":", " ", "Number", " ", "#", " ", "or String">> ->
                 [key |-> Canonical, value |-> <<"Number">>]
          [] l = <<"expectedOutputType", ":", " ", "String">> ->
                 [key |-> Canonical, value |-> <<"String">>]
          [] l = <<"exceptedOutputType", ":", " ", "Boolean">> ->
                 [key |-> Misspelled, value |-> <<"Boolean">>]
          [] l = <<"context", ":", " ", "{">> ->
                 [key |-> Key("context"), value |-> <<"{">>]
          [] OTHER ->
                 [key |-> Key("context"), value |-> <<"{", "\"x\"", ":", " ", "1", "}">>]]

\* the parser is about to read a key/value line outside any section
AtDeclaration ==
    /\ pc = "parse"
    /\ idx <= Len(lines)
    /\ lines[idx] \in DOMAIN Declared
    /\ ~Truthy(pstate.current_section)

\* the value stored for the key of the line read, when the first line that
\* declared the key is the one that counts
FirstKept(new, old) ==
    LET d == Declared[lines[idx]] IN
    new[d.key] = IF d.key \in DOMAIN old THEN old[d.key] ELSE d.value

Affirmative(answer) == answer \in {<<"y">>, <<"Y">>}

\* this step writes over a file that exists
Overwrites == ~written /\ written' /\ test_file_path \in DOMAIN files

\* C6, as stated: in create and edit mode alike an existing target is
\* overwritten only after the prompt has been answered affirmatively.
C6_OverwriteConfirmedEveryMode ==
    [][ Overwrites => (prompted /\ Affirmative(confirm)) ]_vars

\* C6, amended: in create mode an existing target is overwritten only after
\* the prompt has been answered affirmatively, any other answer ends the run
\* with status 0 and the file unchanged; in edit mode the target is
\* overwritten without a prompt.
C6_OverwriteConfirmed ==
    [][ /\ (Overwrites /\ ~edit_mode) => (prompted /\ Affirmative(confirm))
        /\ (pc = "confirm" /\ ~Affirmative(confirm'))
           => (pc' = "exited" /\ exit_status' = "0" /\ files' = files /\ ~written')
        /\ (pc = "resolve" /\ ~edit_mode /\ test_file_path' \in DOMAIN files
            /\ pc' # "exited")
           => (pc' = "confirm" /\ prompted')
        /\ edit_mode => (~prompted' /\ pc' # "confirm") ]_vars

C6_Witness ==
    /\ written
    /\ ~edit_mode
    /\ prompted
    /\ confirm = <<"Y">>
    /\ test_file_path = PathA
    /\ exit_status = "0"

\* C7: a run with the explicit create subcommand whose text parses and whose
\* target does not exist ends with the record written to
\* tests/<category>/<filename>.json and status 0.
C7_ExplicitCreateWrites ==
    (/\ pc = "exited"
     /\ Len(argv) > 0
     /\ argv[1] = Key("create")
     /\ test_data.present
     /\ ~prompted)
    => /\ exit_status = "0"
       /\ written
       /\ test_file_path \in DOMAIN files
       /\ files[test_file_path] = test_data

\* the number a line of Choices stands for
Picked ==
    (<<"0">> :> 0) @@ (<<"1">> :> 1) @@ (<<"2">> :> 2) @@ (<<"3">> :> 3)
    @@ (<<"-", "1">> :> (0 - 1))

InRange(line) ==
    line \in DOMAIN Picked /\ 1 <= Picked[line] /\ Picked[line] <= Len(test_files)

\* C8: the picker leaves its loop only by returning test_files[n-1] for an
\* input n in 1..N or by ending the program with status 0 on the quit input;
\* any other input leaves the list unchanged and prompts again.
C8_PickerLoop ==
    [][ pc = "select"
        => /\ test_files' = test_files
           /\ \/ /\ InRange(choice')
                 /\ pc' = "load"
                 /\ test_path' = test_files[Picked[choice']]
                 /\ exit_status' = "none"
              \/ /\ choice' \in {<<"q">>, <<"Q">>}
                 /\ pc' = "exited"
                 /\ exit_status' = "0"
              \/ /\ ~InRange(choice')
                 /\ choice' \notin {<<"q">>, <<"Q">>}
                 /\ pc' = "select"
                 /\ exit_status' = "none"
                 /\ test_path' = test_path ]_vars

C8_Witness ==
    /\ pc = "load"
    /\ Len(test_files) = 2
    /\ choice = <<"2">>
    /\ test_path = test_files[2]

\* the parser is about to read the end marker of the section it is not in
AtForeignEnd ==
    /\ pc = "parse"
    /\ idx <= Len(lines)
    /\ \/ /\ pstate.current_section = Key("expectedOutput")
          /\ strip(lines[idx]) = <<"#", " ", "END_INPUT">>
       \/ /\ pstate.current_section = Key("input")
          /\ strip(lines[idx]) = <<"#", " ", "END_EXPECTED_OUTPUT">>

\* C9: the end marker of the other section leaves the section state
\* unchanged, stores nothing and is not buffered.
C9_ForeignEndIgnored ==
    [][ AtForeignEnd => pstate' = pstate ]_vars

\* the lines before the i-th hold a context declaration
ContextDeclaredBefore(i) ==
    \E j \in 1..(i - 1) :
        lines[j] \in DOMAIN Declared /\ Declared[lines[j]].key = Key("context")

\* the lines before the i-th hold an end marker
EndMarkerBefore(i) ==
    \E j \in 1..(i - 1) :
        strip(lines[j]) \in { sections[s].end : s \in DOMAIN sections }

\* C10, as stated: a key/value line changes the record or the pending context
\* only in state none, and when a section is never closed its key is absent
\* from the result and the context is the default empty object.
C10_UnclosedSectionDefaults ==
    (pc = "resolve" /\ Truthy(pstate.current_section))
    => /\ pstate.current_section \notin DOMAIN test_data.data
       /\ test_data.context = EmptyObject

\* C10, amended: from a start marker until the next end marker no line
\* changes the record or the pending context; when a section is never closed
\* its key is absent unless an end marker came earlier, and the pending
\* context is the default unless a context line came earlier.
C10_SectionFrame ==
    [][ /\ (pc = "parse" /\ Truthy(pstate'.current_section))
           => /\ pstate'.test_data = pstate.test_data
              /\ pstate'.context_json = pstate.context_json
        /\ (ParsedAll /\ Truthy(pstate.current_section))
           => /\ (pstate.current_section \in DOMAIN pstate.test_data
                  => EndMarkerBefore(idx))
              /\ (pstate.context_json # ParserInit.context_json
                  => ContextDeclaredBefore(idx)) ]_vars

C10_Witness ==
    /\ pc = "resolve"
    /\ lines[1] = sections[Key("input")].start
    /\ Len(lines) = 3
    /\ lines[2] = <<"name", ":", " ", "A">>
    /\ lines[3] = <<"context", ":", " ", "{">>
    /\ pstate.current_section = Key("input")
    /\ test_data.data = EmptyDict
    /\ test_data.context = EmptyObject

====
